---- MODULE Spec2Model ----
(***************************************************************************)
(* A model of blocks/groundhog/examples/sine.py: the AddParameters brick   *)
(* (the spec's ParameterInjector), the SeriesIterator (the spec's          *)
(* DataSource) and the main() script (train and plot modes).               *)
(*                                                                         *)
(* Tensors are modelled by one integer component per port: an "elementwise"*)
(* sum is a sum of integers, an affine projection of the params vector is  *)
(* Dot(W, params) + b.  Floating point rounding is not modelled.           *)
(***************************************************************************)
EXTENDS Integers, Sequences, FiniteSets, TLC

VARIABLES
    with_params,    \* the AddParameters object under construction / in use
    wiringErrors,   \* the kinds of exception raised by AddParameters.__init__ so far
    ret,            \* the last call made on with_params and what came of it
    data,           \* the SeriesIterator object
    batch,          \* what the last data.next() returned or raised
    pc,             \* where main() is
    args,           \* the parsed command line
    function,       \* main's function (the evaluated --function)
    num_params,     \* main's num_params
    generator,      \* the SequenceGenerator's own parameters (transition, readout)
    graphBuilt,     \* whether a computation graph (cost or generation) has been built
    error,          \* the exception that ended main(), or "none"
    ckpt,           \* the file <prefix>model.npz
    train,          \* the training run: iteration count, updates applied, last iteration
    twin,           \* a second training run of the same command line
    plot,           \* plot mode's locals: param_values, outputs, desired, MSE
    gcall           \* the last call made on the generator and what came of it

injVars == <<with_params, wiringErrors, ret>>
dataVars == <<data, batch>>
mainVars == <<pc, args, function, num_params, generator, graphBuilt, error, ckpt,
              train, plot>>

vars == <<with_params, wiringErrors, ret, data, batch, pc, args, function,
          num_params, generator, graphBuilt, error, ckpt, train, twin, plot, gcall>>

----------------------------------------------------------------------------
(* Bounds of the model *)

MaxVal == 1            \* port values, params components and draws range over 0..MaxVal
MaxNumParams == 2      \* num_params ranges over 0..MaxNumParams
MaxBatch == 2          \* batch_size ranges over 1..MaxBatch
MaxSeqLen == 2         \* seq_len ranges over 1..MaxSeqLen
MaxDraws == 4          \* length of the modelled prefix of the random stream
MaxSteps == 2          \* --steps and n_steps range over 0..MaxSteps
MaxIter == 2           \* training iterations modelled

\* Learned weights range over 0..MaxWeight; NumInits initialisations are tried.
MaxWeight == MaxVal + 1
NumInits == MaxVal + 1

Vals == 0..MaxVal

----------------------------------------------------------------------------
(* Helpers *)

Range(s) == {s[i] : i \in DOMAIN s}

RECURSIVE SumTo(_, _)
SumTo(f, n) == IF n = 0 THEN 0 ELSE f[n] + SumTo(f, n - 1)

\* Dot product of a weight vector and a params vector of the same length.
Dot(W, p) == SumTo([i \in 1..Len(p) |-> W[i] * p[i]], Len(p))

\* The sequence s without the elements equal to x (a list comprehension).
RECURSIVE Without(_, _)
Without(s, x) ==
    IF s = <<>> THEN <<>>
    ELSE IF Head(s) = x THEN Without(Tail(s), x)
         ELSE <<Head(s)>> \o Without(Tail(s), x)

\* dict.pop of a set of keys: the dict without them.
Pop(d, keys) == [k \in DOMAIN d \ keys |-> d[k]]

EmptyDict == [k \in {} |-> 0]

----------------------------------------------------------------------------
(* The wrapped transitions (recurrent cells) an AddParameters may be built *)
(* around: the declared sequences, states and contexts of transition.apply *)
(* and the dimensions transition.get_dim knows.                            *)

Cells ==
    { [name |-> "recurrent",
       sequences |-> <<"mask", "inputs">>,
       states |-> <<"states">>,
       contexts |-> <<"attended">>,
       dims |-> [n \in {"mask", "inputs", "states", "attended"} |->
                   IF n = "mask" THEN 0 ELSE IF n = "attended" THEN 4 ELSE 3]],
      [name |-> "gated",
       sequences |-> <<"mask", "inputs", "update_inputs">>,
       states |-> <<"states">>,
       contexts |-> <<>>,
       dims |-> [n \in {"mask", "inputs", "update_inputs", "states"} |->
                   IF n = "mask" THEN 0 ELSE 5]],
      [name |-> "stateless",
       sequences |-> <<"inputs">>,
       states |-> <<>>,
       contexts |-> <<>>,
       dims |-> [n \in {"inputs"} |-> 3]],
      [name |-> "lstm",
       sequences |-> <<"mask", "inputs">>,
       states |-> <<"states", "cells">>,
       contexts |-> <<>>,
       dims |-> [n \in {"mask", "inputs", "states", "cells"} |->
                   IF n = "mask" THEN 0 ELSE 3]] }

\* The names a caller may give as params_name, and the names get_dim is asked for.
ParamsNames == {"params", "ctx"}
PortNames == {"params", "ctx", "mask", "inputs", "update_inputs", "states",
              "cells", "attended", "bogus"}

\* transition.get_dim(name): the declared dimension, or the error for an unknown name.
transition_get_dim(transition, name) ==
    IF name \in DOMAIN transition.dims
    THEN [err |-> "none", val |-> transition.dims[name]]
    ELSE [err |-> "ValueError", val |-> 0]

----------------------------------------------------------------------------
(* AddParameters *)

NoBrick == [wired |-> FALSE]

\* One weight of initialisation scheme k (weights_init / biases_init).
InitValue(k, j) == (k * (j + 1)) % (MaxWeight + 1)

\* The position of a name in a sequence of names (0 when absent).
IndexOf(s, x) == IF \E i \in DOMAIN s : s[i] = x
                 THEN CHOOSE i \in DOMAIN s : s[i] = x ELSE 0

\* self.input_names: the wrapped apply's sequences other than 'mask'.
InputNamesNoFilter(transition) == transition.sequences
input_names_of(transition) == Without(transition.sequences, "mask")

\* AddParameters.__init__: the object built, or the exception raised.
\* transition.apply.states[0] is read before the assertion on its length.
init_brick(transition, nparams, params_name, k) ==
    IF Len(transition.states) = 0
    THEN [err |-> "IndexError", brick |-> NoBrick]
    ELSE IF Len(transition.states) # 1
    THEN [err |-> "AssertionError", brick |-> NoBrick]
    ELSE [err |-> "none",
          brick |->
            [wired |-> TRUE,
             transition |-> transition,
             num_params |-> nparams,
             params_name |-> params_name,
             input_names |-> input_names_of(transition),
             state_name |-> transition.states[1],
             \* the children's parameters: fork (one projection per input
             \* name, input_dim = nparams) and init (nparams -> state)
             fork |-> [W |-> [n \in Range(input_names_of(transition)) |->
                               [i \in 1..nparams |->
                                 InitValue(k, 2 * IndexOf(transition.sequences, n) + i)]],
                       b |-> [n \in Range(input_names_of(transition)) |->
                               InitValue(k, IndexOf(transition.sequences, n))]],
             init |-> [W |-> [i \in 1..nparams |-> InitValue(k, i + 1)],
                       b |-> InitValue(k, 0)]]]

\* Fork.apply(params, return_dict=True): one affine projection per input name.
fork_apply(self, params) ==
    [n \in Range(self.input_names) |-> Dot(self.fork.W[n], params) + self.fork.b[n]]

\* MLP([Identity()]).apply: an affine projection, no nonlinearity.
init_apply(self, params) == Dot(self.init.W, params) + self.init.b

\* AddParameters.initial_state(batch_size, *args, **kwargs)
initial_state(self, batch_size, kwargs) == init_apply(self, kwargs["params"])

\* kwargs.get('iterate', True)
IterateDefaultFalse(kwargs) ==
    IF "iterate" \in DOMAIN kwargs THEN kwargs["iterate"] ELSE FALSE
IterateFlag(kwargs) ==
    IF "iterate" \in DOMAIN kwargs THEN kwargs["iterate"] ELSE TRUE

\* The name apply pops the conditioning vector from.
ApplyParamsKey == "params"

\* The batch_size apply passes to initial_state (None).
None == 0

\* AddParameters.apply(**kwargs): the kwargs handed to transition.apply, or
\* the KeyError of a missing argument; inits counts the calls of initial_state.
apply(self, kwargs) ==
    IF ~(Range(self.input_names) \subseteq DOMAIN kwargs)
    THEN [err |-> "KeyError", handed |-> EmptyDict, inits |-> 0]
    ELSE
    LET popped == [n \in Range(self.input_names) |-> kwargs[n]]
        kw1    == Pop(kwargs, Range(self.input_names))
    IN  IF ApplyParamsKey \notin DOMAIN kw1
        THEN [err |-> "KeyError", handed |-> EmptyDict, inits |-> 0]
        ELSE
        LET params == kw1[ApplyParamsKey]
            kw2    == Pop(kw1, {ApplyParamsKey})
            forks  == fork_apply(self, params)
            inputs == [n \in Range(self.input_names) |-> popped[n] + forks[n]]
            kw3    == inputs @@ kw2
        IN  IF IterateFlag(kw3)
            THEN [err |-> "none",
                  handed |-> (self.state_name :>
                                initial_state(self, None, [params |-> params])) @@ kw3,
                  inits |-> 1]
            ELSE [err |-> "none", handed |-> kw3, inits |-> 0]

\* AddParameters.apply_contexts
apply_contexts(self) == <<self.params_name>> \o self.transition.contexts

\* AddParameters.get_dim(name)
GetDimByParamsName(self, name) ==
    IF name = self.params_name
    THEN [err |-> "none", val |-> self.num_params]
    ELSE transition_get_dim(self.transition, name)
get_dim(self, name) ==
    IF name = "params"
    THEN [err |-> "none", val |-> self.num_params]
    ELSE transition_get_dim(self.transition, name)

----------------------------------------------------------------------------
(* The calls made on an AddParameters object *)

NoCall == [op |-> "none"]

\* with_params = AddParameters(transition, num_params, params_name)
Construct ==
    /\ ret = NoCall
    /\ \E transition \in Cells, nparams \in 0..MaxNumParams,
       params_name \in ParamsNames, k \in 1..NumInits :
          LET r == init_brick(transition, nparams, params_name, k)
          IN  /\ with_params' = IF r.err = "none" THEN r.brick ELSE with_params
              /\ wiringErrors' = IF r.err = "none" THEN wiringErrors
                                 ELSE wiringErrors \cup {r.err}
              /\ ret' = [op |-> "init", transition |-> transition, err |-> r.err,
                          brick |-> r.brick]

\* The dicts a caller may pass for the optional arguments named in opt.
RECURSIVE OptionalArgs(_)
OptionalArgs(opt) ==
    IF opt = {} THEN {EmptyDict}
    ELSE LET n == CHOOSE x \in opt : TRUE
             rest == OptionalArgs(opt \ {n})
         IN  rest \cup {(n :> v) @@ d : v \in Vals, d \in rest}

\* with_params.apply(**kwargs): the caller passes every input port, optionally
\* the mask and the state, the wrapped cell's contexts, optionally iterate, and
\* the conditioning vector under "params", under params_name, or under both.
Apply ==
    /\ ret = NoCall
    /\ with_params.wired
    /\ \E ins \in [Range(with_params.input_names) -> Vals],
          ctx \in [Range(with_params.transition.contexts) -> Vals],
          opt \in OptionalArgs(({"mask"} \cap Range(with_params.transition.sequences))
                               \cup {with_params.state_name}),
          it \in {EmptyDict, [iterate |-> TRUE], [iterate |-> FALSE]},
          p \in [1..with_params.num_params -> Vals],
          keys \in (SUBSET {"params", with_params.params_name}) \ {{}} :
            LET kwargs == ins @@ ctx @@ opt @@ it @@ [k \in keys |-> p]
                r == apply(with_params, kwargs)
            IN  ret' = [op |-> "apply", kwargs |-> kwargs, params |-> p,
                        err |-> r.err, handed |-> r.handed, inits |-> r.inits]
    /\ UNCHANGED <<with_params, wiringErrors>>

\* with_params.get_dim(name)
GetDim ==
    /\ ret = NoCall
    /\ with_params.wired
    /\ \E name \in PortNames :
          ret' = [op |-> "get_dim", name |-> name, res |-> get_dim(with_params, name)]
    /\ UNCHANGED <<with_params, wiringErrors>>

\* with_params.initial_state(batch_size, params=p)
InitialState ==
    /\ ret = NoCall
    /\ with_params.wired
    /\ \E batch_size \in 0..MaxVal + 1, p \in [1..with_params.num_params -> Vals] :
          ret' = [op |-> "initial_state", batch_size |-> batch_size, params |-> p,
                  val |-> initial_state(with_params, batch_size, [params |-> p])]
    /\ UNCHANGED <<with_params, wiringErrors>>

\* The caller takes the result (or the exception) and goes on.
Return ==
    /\ ret # NoCall
    /\ ret' = NoCall
    /\ UNCHANGED <<with_params, wiringErrors>>

IdleInj ==
    /\ with_params = NoBrick
    /\ wiringErrors = {}
    /\ ret = NoCall

----------------------------------------------------------------------------
(* The --function expressions: the family function each evaluates to.      *)
(* args is len(inspect.getargspec(f).args); the last argument is time.     *)

Functions ==
    { [expr |-> "lambda a, x: a * x", args |-> 2],
      [expr |-> "lambda a, b, x: a * x + b", args |-> 3],
      [expr |-> "lambda a, x: a + x", args |-> 2],
      [expr |-> "lambda x: x", args |-> 1] }

\* The expression of func on scalar arguments s (its body).
Body(func, s) ==
    CASE func.expr = "lambda a, x: a * x" -> s[1] * s[2]
      [] func.expr = "lambda a, b, x: a * x + b" -> s[1] * s[3] + s[2]
      [] func.expr = "lambda a, x: a + x" -> s[1] + s[2]
      [] func.expr = "lambda x: x" -> s[1]

(* Argument values of a call: a numpy vector [ndim |-> 1, v |-> <<..>>] or a  *)
(* Python list of vectors, which numpy arithmetic treats as a matrix with one *)
(* row per vector: [ndim |-> 2, v |-> <<row, ..>>].                           *)
Vector(v) == [ndim |-> 1, v |-> v]
ListOf(rows) == [ndim |-> 2, v |-> rows]

\* Element (r, b) of a value broadcast against a matrix.
Elt(val, r, b) ==
    IF val.ndim = 1 THEN val.v[b]
    ELSE IF Len(val.v) = 1 THEN val.v[1][b] ELSE val.v[r][b]

\* func(*actuals): TypeError unless the number of actuals is the number of
\* the function's arguments; else the body, elementwise with broadcasting.
CallFunction(func, actuals, width) ==
    IF Len(actuals) # func.args
    THEN [err |-> "TypeError", val |-> Vector(<<>>)]
    ELSE IF \A j \in DOMAIN actuals : actuals[j].ndim = 1
    THEN [err |-> "none",
          val |-> Vector([b \in 1..width |->
                     Body(func, [j \in DOMAIN actuals |-> actuals[j].v[b]])])]
    ELSE LET rows == CHOOSE k \in 0..MaxNumParams + 1 :
                        /\ \E j \in DOMAIN actuals :
                              actuals[j].ndim = 2 /\ Len(actuals[j].v) = k
                        /\ \A j \in DOMAIN actuals :
                              actuals[j].ndim = 2 => Len(actuals[j].v) <= k
         IN  [err |-> "none",
              val |-> ListOf([r \in 1..rows |-> [b \in 1..width |->
                         Body(func, [j \in DOMAIN actuals |-> Elt(actuals[j], r, b)])]])]

\* x[i, :, 0] = val: a vector, or a matrix of one row, fills the slice.
AssignRow(val) ==
    IF val.ndim = 1 THEN [err |-> "none", row |-> val.v]
    ELSE IF Len(val.v) = 1 THEN [err |-> "none", row |-> val.v[1]]
    ELSE [err |-> "ValueError", row |-> <<>>]

----------------------------------------------------------------------------
(* SeriesIterator *)

\* rng.uniform(size=(rows, cols)): the next rows * cols values of the stream.
Uniform(rng, rows, cols) ==
    [b \in 1..rows |-> [j \in 1..cols |-> rng.stream[rng.pos + (b - 1) * cols + j]]]

\* SeriesIterator.__init__
SeriesIterator(rng, func, seq_len, batch_size) ==
    [rng |-> rng, func |-> func, seq_len |-> seq_len, batch_size |-> batch_size,
     num_params |-> func.args - 1]

\* params.T as a list: one vector (over the batch) per parameter.
Columns(params, batch_size, nparams) ==
    [j \in 1..nparams |-> Vector([b \in 1..batch_size |-> params[b][j]])]

\* The arguments next() calls self.func with at step i:
\* *([list(params.T)] + [i * numpy.ones(batch_size)]).
Actuals(self, params, i) ==
    <<ListOf([j \in 1..self.num_params |->
                Columns(params, self.batch_size, self.num_params)[j].v])>>
        \o <<Vector([b \in 1..self.batch_size |-> i])>>

\* The loop of next(): the rows x[0..n-1], or the first exception.
RECURSIVE FillRows(_, _, _)
FillRows(self, params, n) ==
    IF n = 0 THEN [err |-> "none", x |-> <<>>]
    ELSE LET before == FillRows(self, params, n - 1)
             called == CallFunction(self.func, Actuals(self, params, n - 1),
                                    self.batch_size)
             row    == AssignRow(called.val)
         IN  IF before.err # "none" THEN before
             ELSE IF called.err # "none" THEN [err |-> called.err, x |-> <<>>]
             ELSE IF row.err # "none" THEN [err |-> row.err, x |-> <<>>]
             ELSE [err |-> "none", x |-> Append(before.x, row.row)]

\* SeriesIterator.next(): dict(x=x, params=params), x[t+1][b] being x[t, b, 0].
next(self) ==
    LET params == Uniform(self.rng, self.batch_size, self.num_params)
        filled == FillRows(self, params, self.seq_len)
    IN  [err |-> filled.err, x |-> filled.x,
         params |-> IF filled.err = "none" THEN params ELSE <<>>]

\* The random source after next(): batch_size * num_params values drawn.
Drawn(self) ==
    [self EXCEPT !.rng.pos = @ + self.batch_size * self.num_params]

NoBatch == [err |-> "nocall"]
NoData == [func |-> "none"]

\* data.next(), while the modelled stream has values left
DataNext ==
    /\ data # NoData
    /\ data.rng.pos + data.batch_size * data.num_params <= MaxDraws
    /\ data.rng.pos < MaxDraws
    /\ batch' = next(data)
    /\ data' = Drawn(data)

IdleData ==
    /\ data = NoData
    /\ batch = NoBatch

----------------------------------------------------------------------------
(* Properties of SeriesIterator, checked under SpecData *)

\* C3 as stated: for a family function with num_params >= 1 parameters, next()
\* returns params of shape batch_size x num_params and targets
\* x[t, b, 0] = f(params[b, 0], ..., params[b, num_params-1], t).
C3_TargetsFollowFunction ==
    (batch # NoBatch /\ data.num_params >= 1) =>
        /\ batch.err = "none"
        /\ Len(batch.params) = data.batch_size
        /\ \A b \in 1..data.batch_size : Len(batch.params[b]) = data.num_params
        /\ Len(batch.x) = data.seq_len
        /\ \A t \in 1..data.seq_len : \A b \in 1..data.batch_size :
              batch.x[t][b] = Body(data.func, batch.params[b] \o <<t - 1>>)
----------------------------------------------------------------------------
(* The SequenceGenerator around with_params: the step algorithm shared by   *)
(* cost (scoring mode) and generate (generation mode).                      *)

\* The wrapped transition main() builds (GatedRecurrent).
GatedCell == CHOOSE c \in Cells : c.name = "gated"

\* The parameters generator.allocate() creates: scheme 0 is all zeros.
Allocated(n) ==
    [wp |-> init_brick(GatedCell, n, "params", 0).brick,
     g  |-> [transition |-> [W |-> 0], readout |-> [W |-> 0, b |-> 0]]]

\* Parameter values of scheme k for weights and kb for biases.
ParamsOfScheme(n, k, kb) ==
    LET a == Allocated(n)
    IN  [wp |-> [a.wp EXCEPT
                   !.fork.W = [m \in DOMAIN a.wp.fork.W |->
                                 [i \in 1..n |-> InitValue(k, 2 * IndexOf(GatedCell.sequences, m) + i)]],
                   !.fork.b = [m \in DOMAIN a.wp.fork.b |->
                                 InitValue(kb, IndexOf(GatedCell.sequences, m))],
                   !.init.W = [i \in 1..n |-> InitValue(k, i + 1)],
                   !.init.b = InitValue(kb, 0)],
         g  |-> [transition |-> [W |-> InitValue(k, 1)],
                 readout |-> [W |-> InitValue(k, 0), b |-> InitValue(kb, 2)]]]

\* The wrapped cell's state update on the arguments AddParameters hands it.
CellApply(g, handed) ==
    g.transition.W * handed["states"]
        + SumTo([i \in 1..Len(GatedCell.sequences) |->
                   IF GatedCell.sequences[i] \in DOMAIN handed /\ GatedCell.sequences[i] # "mask"
                   THEN handed[GatedCell.sequences[i]] ELSE 0],
                Len(GatedCell.sequences))

\* LinearReadout on the state.
Readout(g, state) == g.readout.W * state + g.readout.b

\* Emitter.cost: ((readouts - outputs) ** 2).sum(axis=readouts.ndim - 1)
EmitterCost(readouts, outputs) == (readouts - outputs) * (readouts - outputs)

\* One step of the transition: with_params.apply(..., iterate=False), then the cell.
StepState(th, state, input, p) ==
    CellApply(th.g,
        apply(th.wp,
              [n \in Range(th.wp.input_names) |-> input]
                @@ (th.wp.state_name :> state)
                @@ [params |-> p, iterate |-> FALSE]).handed)

\* The step algorithm run for n steps; target is the known sequence in scoring
\* mode and <<>> in generation mode (feedback is then the previous output).
RECURSIVE Steps(_, _, _, _)
Steps(th, p, target, n) ==
    IF n = 0
    THEN [state |-> initial_state(th.wp, 1, [params |-> p]), prev |-> 0,
          states |-> <<>>, outputs |-> <<>>, cost |-> 0]
    ELSE LET r       == Steps(th, p, target, n - 1)
             readout == Readout(th.g, r.state)
             output  == readout
             state   == StepState(th, r.state, r.prev, p)
         IN  [state |-> state,
              prev |-> IF target = <<>> THEN output ELSE target[n],
              states |-> Append(r.states, state),
              outputs |-> Append(r.outputs, output),
              cost |-> r.cost + (IF target = <<>> THEN 0
                                 ELSE EmitterCost(readout, target[n]))]

\* generator.generate(params=p, n_steps=n, batch_size=1)
GenerateAtLeastOneStep(th, p, n) ==
    [states |-> Steps(th, p, <<>>, IF n = 0 THEN 1 ELSE n).states,
     outputs |-> Steps(th, p, <<>>, IF n = 0 THEN 1 ELSE n).outputs]
generate(th, p, n) ==
    [states |-> Steps(th, p, <<>>, n).states, outputs |-> Steps(th, p, <<>>, n).outputs]

\* generator.cost(x, params=params).sum(): x[t][b], params[b]
cost(th, x, params) ==
    SumTo([b \in 1..Len(params) |->
             Steps(th, params[b], [t \in 1..Len(x) |-> x[t][b]], Len(x)).cost],
          Len(params))

----------------------------------------------------------------------------
(* The trainer: gradients of the cost graph and the update rule.            *)

\* learning_rate=0.0001, taken as the unit of a parameter update
LearningRate == 1

Clip(d) == IF d > 0 THEN 1 ELSE IF d < 0 THEN -1 ELSE 0

\* The gradient engine: the slope of the cost in each parameter (a forward
\* difference, rescaled into -1..1 by the trainer's cutoff).
Gradients(th, x, params) ==
    LET c0 == cost(th, x, params)
        D(th2) == Clip(cost(th2, x, params) - c0)
    IN  [fork_W |-> [m \in DOMAIN th.wp.fork.W |-> [i \in DOMAIN th.wp.fork.W[m] |->
                        D([th EXCEPT !.wp.fork.W[m][i] = @ + 1])]],
         fork_b |-> [m \in DOMAIN th.wp.fork.b |-> D([th EXCEPT !.wp.fork.b[m] = @ + 1])],
         init_W |-> [i \in DOMAIN th.wp.init.W |-> D([th EXCEPT !.wp.init.W[i] = @ + 1])],
         init_b |-> D([th EXCEPT !.wp.init.b = @ + 1]),
         transition_W |-> D([th EXCEPT !.g.transition.W = @ + 1]),
         readout_W |-> D([th EXCEPT !.g.readout.W = @ + 1]),
         readout_b |-> D([th EXCEPT !.g.readout.b = @ + 1])]

\* The fixed-step update: every parameter moves by - learning_rate * gradient.
Descend(th, gr) ==
    [wp |-> [th.wp EXCEPT
               !.fork.W = [m \in DOMAIN @ |-> [i \in DOMAIN @[m] |->
                             @[m][i] - LearningRate * gr.fork_W[m][i]]],
               !.fork.b = [m \in DOMAIN @ |-> @[m] - LearningRate * gr.fork_b[m]],
               !.init.W = [i \in DOMAIN @ |-> @[i] - LearningRate * gr.init_W[i]],
               !.init.b = @ - LearningRate * gr.init_b],
     g  |-> [transition |-> [W |-> th.g.transition.W - LearningRate * gr.transition_W],
             readout |-> [W |-> th.g.readout.W - LearningRate * gr.readout_W,
                          b |-> th.g.readout.b - LearningRate * gr.readout_b]]]

\* One draw of the noise stream: component j of the noise tensor of sample z.
NoiseSamples == {-1, 0, 1}
NoiseAt(z, j) == IF j % 2 = 1 THEN z ELSE -z

\* apply_noise(cost, cost.inputs, args.input_noise): the cost graph's inputs
\* (x and params) are replaced by themselves plus noise of the given level.
NoiseOnNoInput(b, level, z) == [x |-> b.x, params |-> b.params]
apply_noise(b, level, z) ==
    [x |-> [t \in DOMAIN b.x |-> [e \in DOMAIN b.x[t] |->
               b.x[t][e] + level * NoiseAt(z, t + e)]],
     params |-> [e \in DOMAIN b.params |-> [j \in DOMAIN b.params[e] |->
               b.params[e][j] + level * NoiseAt(z, e + j + 1)]]]

\* One iteration of the main loop on a run st = (parameters th, data iterator,
\* iteration count, updates so far): next batch, noised cost graph, gradients,
\* update.  z is the noise drawn in this iteration.
TrainStep(st, level, z) ==
    LET b == next(st.data)
    IN  IF b.err # "none"
        THEN [st EXCEPT !.err = b.err, !.data = Drawn(st.data)]
        ELSE LET fed == apply_noise(b, level, z)
                 gr  == Gradients(st.th, fed.x, fed.params)
             IN  [th |-> Descend(st.th, gr),
                  data |-> Drawn(st.data),
                  iter |-> st.iter + 1,
                  updates |-> Append(st.updates, gr),
                  last |-> [batch |-> [x |-> b.x, params |-> b.params],
                            noise |-> z, fed |-> fed, before |-> st.th],
                  err |-> "none"]

NoRun == [iter |-> 0, updates |-> <<>>, err |-> "none"]

----------------------------------------------------------------------------
(* main() *)

Malformed == "lambda a, x: a *"
NotAFunction == "3"
FunctionExprs == {f.expr : f \in Functions} \cup {Malformed, NotAFunction}

NoParams == [given |-> FALSE, values |-> <<>>]

\* The command lines: mode, --function, --input-noise, --steps, --params.
ArgsSet ==
    [mode : {"train", "plot"},
     function : FunctionExprs,
     input_noise : {0, 1},
     steps : 0..MaxSteps,
     params : {NoParams} \cup
              {[given |-> TRUE, values |-> v] :
                  v \in UNION {[1..n -> Vals] : n \in 0..MaxNumParams}}]

\* What <prefix>model.npz may be: absent, unreadable, or the parameters a
\* training run saved.
Checkpoints == {[file |-> "absent"], [file |-> "unreadable"]}
                  \cup {[file |-> "saved", scheme |-> k] : k \in 1..NumInits}

NoFunction == [expr |-> "none", args |-> 0]
NoTheta == [transition |-> "none"]
NoPlot == [sampled |-> FALSE]

\* numpy.random.RandomState(seed): the stream is a function of the seed.
RandomState(seed) ==
    [stream |-> [k \in 1..(MaxIter * MaxBatch * MaxNumParams) |->
                    ((seed * 7 + k * k * 3 + k) \div 2) % (MaxVal + 1)],
     pos |-> 0]

\* seed = 1
Seed == 1

InitMain ==
    /\ pc = "eval"
    /\ args \in ArgsSet
    /\ ckpt \in Checkpoints
    /\ function = NoFunction
    /\ num_params = 0
    /\ generator = NoTheta
    /\ graphBuilt = FALSE
    /\ error = "none"
    /\ train = NoRun
    /\ plot = NoPlot

Fail(kind) == pc' = "failed" /\ error' = kind

\* function = eval(args.function); num_params = len(getargspec(function).args) - 1
EvalFunction ==
    /\ pc = "eval"
    /\ IF args.function = Malformed
       THEN Fail("SyntaxError") /\ UNCHANGED <<function, num_params>>
       ELSE IF args.function = NotAFunction
       THEN Fail("TypeError") /\ UNCHANGED <<function, num_params>>
       ELSE /\ function' = CHOOSE f \in Functions : f.expr = args.function
            /\ num_params' = function'.args - 1
            /\ pc' = "build"
            /\ UNCHANGED error
    /\ UNCHANGED <<args, ckpt, generator, graphBuilt, train, plot, with_params, data>>

\* transition, with_params, generator are built and generator.allocate() runs.
BuildGenerator ==
    /\ pc = "build"
    /\ with_params' = Allocated(num_params).wp
    /\ generator' = Allocated(num_params).g
    /\ pc' = args.mode
    /\ UNCHANGED <<args, ckpt, function, num_params, graphBuilt, error, train, plot, data>>

\* train mode up to the main loop: rng, generator.initialize(), the cost graph
\* with apply_noise, the data iterator and the trainer.
StartTraining ==
    /\ pc = "train"
    /\ \E k \in 1..NumInits :
          /\ with_params' = ParamsOfScheme(num_params, k, 0).wp
          /\ generator' = ParamsOfScheme(num_params, k, 0).g
    /\ graphBuilt' = TRUE
    /\ data' = SeriesIterator(RandomState(Seed), function, MaxSeqLen, MaxBatch)
    /\ pc' = "load"
    /\ UNCHANGED <<args, ckpt, function, num_params, error, train, plot>>

\* main_loop.load(): a saved model is loaded; what MainLoop (groundhog) does
\* with an absent or unreadable file is its own business: it may go on with
\* the fresh parameters or raise.
MainLoopLoad ==
    /\ pc = "load"
    /\ \/ /\ ckpt.file = "saved"
          /\ with_params' = ParamsOfScheme(num_params, ckpt.scheme, ckpt.scheme).wp
          /\ generator' = ParamsOfScheme(num_params, ckpt.scheme, ckpt.scheme).g
          /\ pc' = "main_loop"
          /\ UNCHANGED error
       \/ /\ ckpt.file # "saved"
          /\ pc' = "main_loop"
          /\ UNCHANGED <<with_params, generator, error>>
       \/ /\ ckpt.file # "saved"
          /\ Fail("IOError")
          /\ UNCHANGED <<with_params, generator>>
    /\ UNCHANGED <<args, ckpt, function, num_params, graphBuilt, train, plot, data>>

\* The run record of main's own training run.
ThisRun == [th |-> [wp |-> with_params, g |-> generator], data |-> data,
            iter |-> train.iter, updates |-> train.updates, err |-> "none"]

\* main_loop.main(): one iteration of the loop.
TrainIteration ==
    /\ pc = "main_loop"
    /\ train.iter < MaxIter
    /\ \E z \in (IF args.input_noise = 0 THEN {0} ELSE NoiseSamples) :
          LET st == TrainStep(ThisRun, args.input_noise, z)
          IN  /\ with_params' = st.th.wp
              /\ generator' = st.th.g
              /\ data' = st.data
              /\ IF st.err = "none"
                 THEN /\ train' = [iter |-> st.iter, updates |-> st.updates,
                                   last |-> st.last, err |-> "none"]
                      /\ UNCHANGED <<pc, error>>
                 ELSE Fail(st.err) /\ UNCHANGED train
    /\ UNCHANGED <<args, ckpt, function, num_params, graphBuilt, plot>>

\* load_params(generator, args.prefix + "model.npz")
LoadParams ==
    /\ pc = "plot"
    /\ IF ckpt.file = "saved"
       THEN /\ with_params' = ParamsOfScheme(num_params, ckpt.scheme, ckpt.scheme).wp
            /\ generator' = ParamsOfScheme(num_params, ckpt.scheme, ckpt.scheme).g
            /\ pc' = "compile"
            /\ UNCHANGED error
       ELSE Fail("IOError") /\ UNCHANGED <<with_params, generator>>
    /\ UNCHANGED <<args, ckpt, function, num_params, graphBuilt, train, plot, data>>

\* sample = theano.function([params], generator.generate(params=params,
\*                          n_steps=args.steps, batch_size=1))
CompileSample ==
    /\ pc = "compile"
    /\ graphBuilt' = TRUE
    /\ pc' = "params"
    /\ UNCHANGED <<args, ckpt, function, num_params, generator, error, train, plot,
                   with_params, data>>

\* param_values = numpy.array(map(float, args.params.split()))
ParseParams ==
    /\ pc = "params"
    /\ IF ~args.params.given
       THEN Fail("AttributeError") /\ UNCHANGED plot
       ELSE /\ plot' = [sampled |-> FALSE, param_values |-> args.params.values]
            /\ pc' = "sample"
            /\ UNCHANGED error
    /\ UNCHANGED <<args, ckpt, function, num_params, generator, graphBuilt, train,
                   with_params, data>>

\* function(*(list(param_values) + [T])) for T in range(n)
RECURSIVE Desired(_, _, _)
Desired(f, param_values, n) ==
    IF n = 0 THEN <<>>
    ELSE Append(Desired(f, param_values, n - 1), Body(f, param_values \o <<n - 1>>))

\* The rest of plot mode: sample(param_values[None, :]), actual, desired, MSE.
SampleAndCompare ==
    /\ pc = "sample"
    /\ IF Len(plot.param_values) # num_params
       THEN Fail("ValueError") /\ UNCHANGED plot
       ELSE LET th      == [wp |-> with_params, g |-> generator]
                out     == generate(th, plot.param_values, args.steps)
                desired == Desired(function, plot.param_values, args.steps)
            IN  /\ plot' = [sampled |-> TRUE, param_values |-> plot.param_values,
                            states |-> out.states, actual |-> out.outputs,
                            desired |-> desired,
                            MSE |-> SumTo([t \in 1..args.steps |->
                                      EmitterCost(out.outputs[t], desired[t])], args.steps)]
                /\ pc' = "done"
                /\ UNCHANGED error
    /\ UNCHANGED <<args, ckpt, function, num_params, generator, graphBuilt, train,
                   with_params, data>>

IdleMain ==
    /\ pc = "idle"
    /\ args = [mode |-> "none"]
    /\ ckpt = [file |-> "absent"]
    /\ function = NoFunction
    /\ num_params = 0
    /\ generator = NoTheta
    /\ graphBuilt = FALSE
    /\ error = "none"
    /\ train = NoRun
    /\ plot = NoPlot

----------------------------------------------------------------------------
(* Calls on a generator outside main(): generate, cost, and a descent step  *)

\* generator.generate(params=p, n_steps=n, batch_size=1)
GenerateCall ==
    /\ gcall = NoCall
    /\ \E n \in 0..MaxSteps, p \in [1..num_params -> Vals] :
          LET out == generate([wp |-> with_params, g |-> generator], p, n)
          IN  gcall' = [op |-> "generate", n_steps |-> n, params |-> p,
                        states |-> out.states, outputs |-> out.outputs]
    /\ UNCHANGED <<with_params, generator, train>>

\* generator.cost(x, params=p).sum() for one sequence x of n steps
CostCall ==
    /\ gcall = NoCall
    /\ \E n \in 0..MaxSteps :
       \E x \in [1..n -> [1..1 -> Vals]], p \in [1..num_params -> Vals] :
          gcall' = [op |-> "cost", n_steps |-> n, x |-> x, params |-> p,
                    cost |-> cost([wp |-> with_params, g |-> generator], x, <<p>>)]
    /\ UNCHANGED <<with_params, generator, train>>

\* One descent step of the trainer on the batch x = [[[1]]], params = [[1, ..]].
DescentStep ==
    /\ gcall = NoCall
    /\ train.iter < MaxIter
    /\ LET th == [wp |-> with_params, g |-> generator]
           gr == Gradients(th, <<<<1>>>>, <<[i \in 1..num_params |-> 1]>>)
       IN  /\ with_params' = Descend(th, gr).wp
           /\ generator' = Descend(th, gr).g
           /\ train' = [iter |-> train.iter + 1, updates |-> Append(train.updates, gr),
                        err |-> "none"]
           /\ gcall' = [op |-> "descent"]

GenReturn ==
    /\ gcall # NoCall
    /\ gcall' = NoCall
    /\ UNCHANGED <<with_params, generator, train>>

\* The second run of the same train command starts where the first starts;
\* it is followed when --input-noise is 0, the case in which runs are compared.
TwinStart ==
    twin' = IF pc' = "main_loop" /\ args.input_noise = 0
            THEN [th |-> [wp |-> with_params', g |-> generator'], data |-> data',
                  iter |-> 0, updates |-> <<>>, err |-> "none"]
            ELSE twin

\* One iteration of the second run's main loop.
TwinIteration ==
    /\ "th" \in DOMAIN twin
    /\ twin.err = "none"
    /\ twin.iter < MaxIter
    /\ \E z \in (IF args.input_noise = 0 THEN {0} ELSE NoiseSamples) :
          twin' = TrainStep(twin, args.input_noise, z)

----------------------------------------------------------------------------
(* Specifications *)

\* AddParameters on its own: any cell, any calls.
InitInj == IdleInj /\ IdleData /\ IdleMain /\ twin = NoRun /\ gcall = NoCall

NotInj == <<data, batch, pc, args, function, num_params, generator, graphBuilt,
            error, ckpt, train, twin, plot, gcall>>

NextInj ==
    \/ Construct /\ UNCHANGED NotInj
    \/ Apply /\ UNCHANGED NotInj
    \/ GetDim /\ UNCHANGED NotInj
    \/ InitialState /\ UNCHANGED NotInj
    \/ Return /\ UNCHANGED NotInj

SpecInj == InitInj /\ [][NextInj]_vars

\* SeriesIterator on its own: any family function, any seeded stream.
InitData ==
    /\ IdleInj /\ IdleMain /\ twin = NoRun /\ gcall = NoCall
    /\ \E func \in Functions, seq_len \in 1..MaxSeqLen, batch_size \in 1..MaxBatch,
          stream \in [1..MaxDraws -> Vals] :
            data = SeriesIterator([stream |-> stream, pos |-> 0], func, seq_len, batch_size)
    /\ batch = NoBatch

NextData ==
    DataNext /\ UNCHANGED <<injVars, mainVars, twin, gcall>>

SpecData == InitData /\ [][NextData]_vars

\* One run of main(), any command line, any checkpoint file.
InitRun == IdleInj /\ IdleData /\ InitMain /\ twin = NoRun /\ gcall = NoCall

NotMain == <<wiringErrors, ret, batch, twin, gcall>>

NextMain ==
    \/ EvalFunction /\ UNCHANGED NotMain
    \/ BuildGenerator /\ UNCHANGED NotMain
    \/ StartTraining /\ UNCHANGED NotMain
    \/ MainLoopLoad /\ UNCHANGED NotMain
    \/ TrainIteration /\ UNCHANGED NotMain
    \/ LoadParams /\ UNCHANGED NotMain
    \/ CompileSample /\ UNCHANGED NotMain
    \/ ParseParams /\ UNCHANGED NotMain
    \/ SampleAndCompare /\ UNCHANGED NotMain

SpecMain == InitRun /\ [][NextMain]_vars

\* Two runs of main() in train mode on the same command line.
InitTrain == InitRun /\ args.mode = "train" /\ args.steps = 0 /\ ~args.params.given

NotTrain == <<wiringErrors, ret, batch, gcall>>

NextTrain ==
    \/ EvalFunction /\ UNCHANGED <<NotTrain, twin>>
    \/ BuildGenerator /\ UNCHANGED <<NotTrain, twin>>
    \/ StartTraining /\ UNCHANGED <<NotTrain, twin>>
    \/ MainLoopLoad /\ TwinStart /\ UNCHANGED NotTrain
    \/ TrainIteration /\ UNCHANGED <<NotTrain, twin>>
    \/ TwinIteration /\ UNCHANGED <<NotTrain, mainVars, with_params, data>>

SpecTrain == InitTrain /\ [][NextTrain]_vars

\* A generator as main() builds it, with any parameter values, called directly.
InitGen ==
    /\ IdleData /\ twin = NoRun /\ gcall = NoCall
    /\ wiringErrors = {} /\ ret = NoCall
    /\ pc = "idle" /\ args = [mode |-> "none"] /\ ckpt = [file |-> "absent"]
    /\ function = NoFunction /\ graphBuilt = FALSE /\ error = "none"
    /\ train = NoRun /\ plot = NoPlot
    /\ num_params \in 0..MaxNumParams
    /\ \E k \in 1..NumInits :
          /\ with_params = ParamsOfScheme(num_params, k, k).wp
          /\ generator = ParamsOfScheme(num_params, k, k).g

NotGen == <<wiringErrors, ret, data, batch, pc, args, function, num_params,
            graphBuilt, error, ckpt, twin, plot>>

NextGen ==
    \/ GenerateCall /\ UNCHANGED NotGen
    \/ CostCall /\ UNCHANGED NotGen
    \/ DescentStep /\ UNCHANGED NotGen
    \/ GenReturn /\ UNCHANGED NotGen

SpecGen == InitGen /\ [][NextGen]_vars

----------------------------------------------------------------------------
(* Properties of AddParameters, checked under SpecInj *)

ApplyDone == ret.op = "apply" /\ ret.err = "none"

\* The input ports of the wrapped cell other than "mask".
InjectedPorts == Range(with_params.transition.sequences) \ {"mask"}

\* The affine projections of params, written out from the learned weights.
ForkProjection(n, p) == Dot(with_params.fork.W[n], p) + with_params.fork.b[n]
InitProjection(p) == Dot(with_params.init.W, p) + with_params.init.b

WholeSequence(kwargs) == "iterate" \notin DOMAIN kwargs \/ kwargs["iterate"]

InputsInjected ==
    \A n \in InjectedPorts :
        /\ n \in DOMAIN ret.handed
        /\ ret.handed[n] = ret.kwargs[n] + ForkProjection(n, ret.params)

\* C1 as stated: every input port other than "mask" is handed on as supplied
\* value plus projection of params, every other argument (the mask, the state,
\* contexts, iterate) is handed on unchanged, and params is not handed on.
C1_AllOthersUnchanged ==
    ApplyDone =>
        /\ InputsInjected
        /\ DOMAIN ret.handed = DOMAIN ret.kwargs \ {"params"}
        /\ \A n \in DOMAIN ret.kwargs \ (InjectedPorts \cup {"params"}) :
              ret.handed[n] = ret.kwargs[n]

\* C1 amended: as above, except for the state port, which is handed on as
\* supplied only in a single-step call (iterate = False); when iterate is
\* absent or True the state port is set to initial_state(params), whether or
\* not the caller supplied it.
C1_OthersUnchangedButState ==
    ApplyDone =>
        /\ InputsInjected
        /\ "params" \notin DOMAIN ret.handed
        /\ \A n \in DOMAIN ret.kwargs \ (InjectedPorts \cup {"params", with_params.state_name}) :
              n \in DOMAIN ret.handed /\ ret.handed[n] = ret.kwargs[n]
        /\ IF WholeSequence(ret.kwargs)
           THEN /\ DOMAIN ret.handed =
                     (DOMAIN ret.kwargs \ {"params"}) \cup {with_params.state_name}
                /\ ret.handed[with_params.state_name] = InitProjection(ret.params)
           ELSE /\ DOMAIN ret.handed = DOMAIN ret.kwargs \ {"params"}
                /\ with_params.state_name \in DOMAIN ret.kwargs =>
                     ret.handed[with_params.state_name] = ret.kwargs[with_params.state_name]

\* A call with two injected ports, a mask, a context and a nonzero projection.
C1_Witness ==
    /\ ApplyDone
    /\ "mask" \in DOMAIN ret.kwargs
    /\ "attended" \in DOMAIN ret.kwargs
    /\ with_params.params_name \in DOMAIN ret.handed
    /\ ret.handed["inputs"] > ret.kwargs["inputs"]
    /\ ~WholeSequence(ret.kwargs)

\* C2: initial_state(params) is the init projection of params whatever the
\* batch_size; a whole-sequence apply computes it once and starts the wrapped
\* cell from it; a single-step apply (iterate = False) never computes it and
\* hands the caller's state on unchanged.
C2_InitialStateOnlyAtStart ==
    /\ ret.op = "initial_state" => ret.val = InitProjection(ret.params)
    /\ ApplyDone =>
         IF WholeSequence(ret.kwargs)
         THEN /\ ret.inits = 1
              /\ ret.handed[with_params.state_name] = InitProjection(ret.params)
         ELSE /\ ret.inits = 0
              /\ with_params.state_name \in DOMAIN ret.handed
                   <=> with_params.state_name \in DOMAIN ret.kwargs
              /\ with_params.state_name \in DOMAIN ret.kwargs =>
                   ret.handed[with_params.state_name] = ret.kwargs[with_params.state_name]

\* A single-step call whose supplied state differs from initial_state(params).
C2_Witness ==
    /\ ApplyDone
    /\ ~WholeSequence(ret.kwargs)
    /\ with_params.state_name \in DOMAIN ret.kwargs
    /\ ret.kwargs[with_params.state_name] # InitProjection(ret.params)
    /\ ret.handed[with_params.state_name] = ret.kwargs[with_params.state_name]

\* C4: get_dim("params") is num_params; any other name gives what the wrapped
\* cell's get_dim gives: its declared dimension, or its error for an unknown name.
C4_GetDim ==
    ret.op = "get_dim" =>
        IF ret.name = "params"
        THEN ret.res = [err |-> "none", val |-> with_params.num_params]
        ELSE IF ret.name \in DOMAIN with_params.transition.dims
        THEN ret.res = [err |-> "none", val |-> with_params.transition.dims[ret.name]]
        ELSE ret.res.err = "ValueError"

\* get_dim("params") answered for an injector whose params_name is not "params".
C4_Witness ==
    /\ ret.op = "get_dim"
    /\ ret.name = "params"
    /\ with_params.params_name # "params"
    /\ with_params.num_params = MaxNumParams
    /\ ret.res.val = MaxNumParams

\* C8 as stated: wiring around a cell without exactly one state port fails,
\* always with the same kind of error, and yields no injector; with exactly
\* one state port it succeeds and that port is the state name.
C8_OneKindOfWiringError ==
    /\ Cardinality(wiringErrors) <= 1
    /\ ret.op = "init" =>
         IF Len(ret.transition.states) = 1
         THEN /\ ret.err = "none"
              /\ ret.brick.wired
              /\ ret.brick.state_name = ret.transition.states[1]
         ELSE ret.err # "none" /\ ~ret.brick.wired

\* C10 as stated: the name declared in apply's contexts, the name apply reads
\* the conditioning vector from and the name get_dim answers num_params for
\* are all params_name.
C10_ParamsNameAgrees ==
    with_params.wired =>
        /\ Head(apply_contexts(with_params)) = with_params.params_name
        /\ (ret.op = "apply" /\ with_params.params_name \in DOMAIN ret.kwargs) =>
              (ret.err = "none" /\ with_params.params_name \notin DOMAIN ret.handed)
        /\ (ret.op = "get_dim" /\ ret.name = with_params.params_name) =>
              ret.res = [err |-> "none", val |-> with_params.num_params]

----------------------------------------------------------------------------
(* Properties of the generator's calls, checked under SpecGen *)

\* C5: a generate call with n_steps = 0 returns no outputs (and no states), a
\* cost call on a sequence of 0 steps returns 0, and neither changes a learnable
\* parameter, the optimizer's state or anything else outside the call.
C5_ZeroStepsNoEffect ==
    [][(gcall'.op \in {"generate", "cost"} /\ gcall'.n_steps = 0) =>
          /\ gcall'.op = "generate" => (gcall'.outputs = <<>> /\ gcall'.states = <<>>)
          /\ gcall'.op = "cost" => gcall'.cost = 0
          /\ UNCHANGED <<with_params, generator, train, data, ckpt, plot, twin>>]_vars

\* A generate call of 0 steps on a generator that has been trained.
C5_Witness ==
    /\ gcall.op = "generate"
    /\ gcall.n_steps = 0
    /\ gcall.outputs = <<>>
    /\ train.iter > 0
    /\ num_params > 0

----------------------------------------------------------------------------
(* Properties of main(), checked under SpecMain and SpecTrain *)

\* The exceptions an input error (--function, --params) ends the run with.
InputErrorKinds == {"SyntaxError", "TypeError", "AttributeError", "ValueError"}

\* C7 as stated: a run that an input error ends has built no computation
\* graph (neither the cost graph nor the generation function).
C7_InputErrorsBeforeGraph ==
    (pc = "failed" /\ error \in InputErrorKinds) => ~graphBuilt

HasLast(r) == "last" \in DOMAIN r

\* The inputs of the cost graph as the batch plus noise of the given level.
FedIsBatchPlusNoise(r) ==
    /\ \A t \in DOMAIN r.last.batch.x : \A e \in DOMAIN r.last.batch.x[t] :
          r.last.fed.x[t][e] =
              r.last.batch.x[t][e] + args.input_noise * NoiseAt(r.last.noise, t + e)
    /\ \A e \in DOMAIN r.last.batch.params : \A j \in DOMAIN r.last.batch.params[e] :
          r.last.fed.params[e][j] =
              r.last.batch.params[e][j] + args.input_noise * NoiseAt(r.last.noise, e + j + 1)

\* The last update is the descent step on the gradients at the given inputs.
UpdateIsDescentAt(r, inputs) ==
    /\ r.updates[r.iter] = Gradients(r.last.before, inputs.x, inputs.params)
    /\ r.th = Descend(r.last.before, r.updates[r.iter])

MainRun == [th |-> [wp |-> with_params, g |-> generator], iter |-> train.iter,
            updates |-> train.updates, last |-> train.last]

SameUpdates ==
    \A i \in 1..(IF train.iter < twin.iter THEN train.iter ELSE twin.iter) :
        train.updates[i] = twin.updates[i]

ZeroNoiseIsPlainDescent(r) ==
    args.input_noise = 0 =>
        /\ r.last.fed = r.last.batch
        /\ UpdateIsDescentAt(r, r.last.batch)

====
